---- MODULE Spec2Model ----
(***************************************************************************)
(* Timelapse controller of src/archive/poc/interval.py: endpoint           *)
(* resolution, exposure reading, interval validation, the shutter          *)
(* actuator (take_photo / release_shutter) and the scheduler loop of       *)
(* __main__.  Time is counted in ticks of half a second, the smallest      *)
(* delay of the program (the 0.5 s settle delay); a computation between    *)
(* two blocking calls takes no time, a blocking call (HTTP request or      *)
(* sleep) takes the time its action adds to now.                           *)
(***************************************************************************)
EXTENDS Integers, Sequences, FiniteSets, TLC

(* ------------------------------ bounds --------------------------------- *)

\* largest latency, in ticks, of an HTTP call that is answered or refused
MaxLatency == 1

\* shots after which the model stops waking from the inter-shot sleep
MaxShots == 3

\* the clock is followed up to MaxTime and reads MaxTime from then on; every
\* deadline of StopAts lies below it, so that every comparison of a later
\* time with the deadline has the answer it has at MaxTime
MaxTime == 40

\* endpoints in an index given to the resolver
MaxEndpoints == 3

\* polls after which the model of the event monitor stops polling
MaxPolls == 4

\* the functions called on their own: intervals up to MaxInterval ticks,
\* exposures with numerator and denominator up to MaxSeconds, shutter-speed
\* texts of up to MaxChars characters, a day of DayMinutes minutes
MaxInterval == 10
MaxSeconds == 3
MaxChars == 3
DayMinutes == 3

(* -------------------------- program constants -------------------------- *)

TicksPerSecond == 2

\* requests.post(..., timeout=5) / requests.get(..., timeout=5)
PostTimeout == 10

\* time.sleep(0.5) between an accepted press and the release
SettleDelay == 1

\* time.sleep(1) after the startup recovery
StartupDelay == 2

\* post_shutter_action returns None when requests.post raises
NoResponse == 0

\* if r and r.status_code in (200, 201, 202)
SuccessCodes == {200, 201, 202}

\* status codes the device answers with in the model
StatusCodes == {200, 201, 202, 204, 400}

Latencies == 0 .. MaxLatency

\* release_payloads of release_shutter, in list order; af is "absent" for a
\* payload without the af key
release_payloads ==
    << [af |-> "false",  key |-> "action", value |-> "release"],
       [af |-> "absent", key |-> "action", value |-> "release"],
       [af |-> "absent", key |-> "press",  value |-> "release"],
       [af |-> "absent", key |-> "button", value |-> "release"] >>

PressPayloadNoAf(af) == [af |-> "false", key |-> "action", value |-> "full_press"]

\* press_payload / release_payload of take_photo
PressPayload(af) == [af |-> af, key |-> "action", value |-> "full_press"]

NominalReleasePayload == [af |-> "false", key |-> "action", value |-> "release"]

(* ----------------------------- responses ------------------------------- *)

IsSuccessLoose(r) == r # NoResponse /\ r < 400

IsSuccessOnly200(r) == r = 200

\* r and r.status_code in (200, 201, 202); a Response is falsy from 400 on
IsSuccess(r) == r # NoResponse /\ r < 400 /\ r \in SuccessCodes

(* -------------------------- endpoint resolver -------------------------- *)

ShutterPath == "/ccapi/ver100/shooting/control/shutterbutton"
ManualPath  == "/ccapi/ver100/shooting/control/shutterbutton/manual"
LiveViewPath == "/ccapi/ver100/shooting/liveview"
ShutterPath110 == "/ccapi/ver110/shooting/control/shutterbutton"
ManualPath110  == "/ccapi/ver110/shooting/control/shutterbutton/manual"

\* 'shutterbutton' in path, 'manual' in path
Contains(path, marker) ==
    CASE marker = "shutterbutton" ->
             path \in {ShutterPath, ManualPath, ShutterPath110, ManualPath110}
      [] marker = "manual"        -> path \in {ManualPath, ManualPath110}
      [] OTHER                    -> FALSE

Endpoint(p, post) == [path |-> p, post |-> post]

RECURSIVE CollectListAnyMethod(_)
CollectListAnyMethod(endpoints_list) ==
    IF endpoints_list = << >> THEN << >>
    ELSE LET endpoint == Head(endpoints_list)
             rest == CollectListAnyMethod(Tail(endpoints_list))
         IN IF Contains(endpoint.path, "shutterbutton")
            THEN <<endpoint.path>> \o rest
            ELSE rest

RECURSIVE CollectList(_)
CollectList(endpoints_list) ==
    IF endpoints_list = << >> THEN << >>
    ELSE LET endpoint == Head(endpoints_list)
             rest == CollectList(Tail(endpoints_list))
         IN IF Contains(endpoint.path, "shutterbutton") /\ endpoint.post
            THEN <<endpoint.path>> \o rest
            ELSE rest

\* first loop of find_shooting_endpoints: every POST-capable shutter path,
\* in the order of the versions and of each version's list
RECURSIVE CollectEndpoints(_)
CollectEndpoints(idx) ==
    IF idx = << >> THEN << >>
    ELSE CollectList(Head(idx)) \o CollectEndpoints(Tail(idx))

\* second loop: the (manual_endpoint, regular_endpoint) pair after scanning
RECURSIVE PreferLoop(_, _, _)
PreferLoop(endpoints, manual_endpoint, regular_endpoint) ==
    IF endpoints = << >> THEN <<manual_endpoint, regular_endpoint>>
    ELSE LET endpoint == Head(endpoints)
         IN IF Contains(endpoint, "manual")
            THEN PreferLoop(Tail(endpoints), endpoint, regular_endpoint)
            ELSE IF Contains(endpoint, "shutterbutton") /\ manual_endpoint = ""
                 THEN PreferLoop(Tail(endpoints), manual_endpoint, endpoint)
                 ELSE PreferLoop(Tail(endpoints), manual_endpoint, regular_endpoint)

find_shooting_endpoints_regular_first(idx) ==
    LET found == PreferLoop(CollectEndpoints(idx), "", "")
    IN IF found[2] # "" THEN found[2]
       ELSE IF found[1] # "" THEN found[1]
       ELSE ""

\* the path chosen, "" for None
find_shooting_endpoints(idx) ==
    LET found == PreferLoop(CollectEndpoints(idx), "", "")
    IN IF found[1] # "" THEN found[1]
       ELSE IF found[2] # "" THEN found[2]
       ELSE ""

(* --------------------------- exposure reader --------------------------- *)

Digits == {"0", "1", "2", "3", "4", "5", "6", "7", "8", "9"}

DigitVal(c) ==
    CASE c = "0" -> 0 [] c = "1" -> 1 [] c = "2" -> 2 [] c = "3" -> 3
      [] c = "4" -> 4 [] c = "5" -> 5 [] c = "6" -> 6 [] c = "7" -> 7
      [] c = "8" -> 8 [] c = "9" -> 9

RECURSIVE DigitsVal(_)
DigitsVal(s) ==
    IF s = << >> THEN 0 ELSE 10 * DigitsVal(SubSeq(s, 1, Len(s) - 1)) + DigitVal(s[Len(s)])

\* float(text) for a text of digits: the rational <<n, 1>>; << >> stands for
\* the ValueError of any other text
ParseFloat(s) ==
    IF s # << >> /\ \A i \in 1 .. Len(s) : s[i] \in Digits
    THEN <<DigitsVal(s), 1>>
    ELSE << >>

SlashPositions(s) == {i \in 1 .. Len(s) : s[i] = "/"}

\* convert_tv_to_seconds: seconds as a rational <<num, den>>, << >> for None
convert_tv_to_seconds(tv_value) ==
    IF tv_value.type = "str"
    THEN IF SlashPositions(tv_value.chars) # {}
         THEN IF Cardinality(SlashPositions(tv_value.chars)) # 1
              THEN << >>
              ELSE LET k == CHOOSE i \in SlashPositions(tv_value.chars) : TRUE
                       numerator == ParseFloat(SubSeq(tv_value.chars, 1, k - 1))
                       denominator ==
                           ParseFloat(SubSeq(tv_value.chars, k + 1, Len(tv_value.chars)))
                   IN IF numerator = << >> \/ denominator = << >> THEN << >>
                      ELSE IF denominator[1] = 0 THEN << >>
                      ELSE <<numerator[1], denominator[1]>>
         ELSE ParseFloat(tv_value.chars)
    ELSE IF tv_value.type = "num" THEN <<tv_value.num, 1>>
    ELSE << >>

\* truthiness of current_value: a non-empty string, a non-zero number
Truthy(tv_value) ==
    CASE tv_value.type = "str" -> tv_value.chars # << >>
      [] tv_value.type = "num" -> tv_value.num # 0
      [] OTHER -> tv_value.type # "none"

\* line 172: settings.get raises AttributeError when the settings value is
\* truthy and not a dict (kind "list": a non-empty JSON list, a string, a
\* number)
SettingsGetRaises(settings) == settings.kind = "list"

\* parse_shutter_speed; settings.kind is "none" (None or an empty object),
\* "list" or "dict"; settings.tv is the value of settings['tv']['value'],
\* type "none" when the tv entry or its value is missing
parse_shutter_speed(settings) ==
    IF settings.kind = "none" THEN << >>
    ELSE IF Truthy(settings.tv) THEN convert_tv_to_seconds(settings.tv)
    ELSE << >>

(* -------------------------- interval validator ------------------------- *)

validate_interval_skipped(interval_ticks, shutter_speed_seconds) == TRUE

validate_interval_needs_exposure(interval_ticks, shutter_speed_seconds) ==
    /\ shutter_speed_seconds # << >>
    /\ ~ (interval_ticks * shutter_speed_seconds[2]
             <= TicksPerSecond * shutter_speed_seconds[1])

validate_interval_nonstrict(interval_ticks, shutter_speed_seconds) ==
    IF shutter_speed_seconds = << >> THEN TRUE
    ELSE ~ (interval_ticks * shutter_speed_seconds[2]
              < TicksPerSecond * shutter_speed_seconds[1])

\* validate_interval: interval_seconds <= shutter_speed_seconds fails; the
\* interval is interval_ticks / TicksPerSecond seconds
validate_interval(interval_ticks, shutter_speed_seconds) ==
    IF shutter_speed_seconds = << >> THEN TRUE
    ELSE ~ (interval_ticks * shutter_speed_seconds[2]
              <= TicksPerSecond * shutter_speed_seconds[1])

(* ------------------------------ stop time ------------------------------ *)

SecondsPerMinute == 60

\* timedelta(days=1), in ticks
DayTicks == DayMinutes * SecondsPerMinute * TicksPerSecond

\* the threshold of line 244, in ticks
RollThreshold == 60 * TicksPerSecond

parse_stop_time_rolls_any_past(minute_of_day, now_ticks) ==
    LET stop_datetime == minute_of_day * SecondsPerMinute * TicksPerSecond
        time_diff == stop_datetime - now_ticks
    IN IF time_diff < 0 THEN stop_datetime + DayTicks ELSE stop_datetime

\* parse_stop_time for a text that strptime accepts: minute_of_day is
\* 60 * HH + MM, now_ticks the time of day of datetime.now(); the result and
\* now_ticks count ticks from today's midnight
parse_stop_time(minute_of_day, now_ticks) ==
    LET stop_datetime == minute_of_day * SecondsPerMinute * TicksPerSecond
        time_diff == stop_datetime - now_ticks
    IN IF time_diff < - RollThreshold THEN stop_datetime + DayTicks
       ELSE stop_datetime

(* ------------------------------ scheduler ------------------------------ *)

StopReachedLate(stop_at, t) == stop_at # << >> /\ t > stop_at[1]

\* args.stop_at and datetime.now() >= args.stop_at; stop_at is << >> for None
StopReached(stop_at, t) == stop_at # << >> /\ t >= stop_at[1]

(* ------------------------------- inputs -------------------------------- *)

\* the command lines of the model: <<--interval in ticks, --stop-at>>, the
\* stop time in ticks after the start of the program and << >> when the option
\* is not given.  Intervals of 2 s, 10 s (the default) and 15 s; <<0>> is a
\* deadline that has passed when the program starts
Args ==
    { <<4, << >> >>, <<20, << >> >>,
      <<20, <<0>> >>, <<20, <<32>> >>, <<30, <<32>> >> }

\* capability indexes: each a list of versions, each version a list of
\* endpoints
MainIndexes ==
    { << <<Endpoint(LiveViewPath, TRUE), Endpoint(ShutterPath, TRUE)>>,
         <<Endpoint(ManualPath, TRUE)>> >>,
      << <<Endpoint(ShutterPath, FALSE), Endpoint(LiveViewPath, TRUE)>> >>,
      << <<Endpoint(LiveViewPath, TRUE)>>, <<Endpoint(ManualPath110, FALSE)>> >> }

\* the indexes the resolver is checked on: up to MaxEndpoints endpoints in
\* scan order, split over two versions
EndpointChoices ==
    { Endpoint(p, post) :
        p \in {ShutterPath, ShutterPath110, ManualPath, ManualPath110,
               LiveViewPath},
        post \in BOOLEAN }

ResolverIndexes ==
    UNION { { <<SubSeq(f, 1, k), SubSeq(f, k + 1, n)>> :
                f \in [1 .. n -> EndpointChoices], k \in 0 .. n } :
            n \in 0 .. MaxEndpoints }

NoTv == [type |-> "none", chars |-> << >>, num |-> 0]
StrTv(chars) == [type |-> "str", chars |-> chars, num |-> 0]
NumTv(n) == [type |-> "num", chars |-> << >>, num |-> n]

\* what get_camera_settings returns: None (an error or a status outside
\* 200/201/202), or the settings object with its tv value
NoSettings == [kind |-> "none", tv |-> NoTv]

SettingsResponses ==
    { NoSettings,
      [kind |-> "dict", tv |-> NoTv],
      [kind |-> "dict", tv |-> StrTv(<<"1", "/", "6", "0">>)],
      [kind |-> "dict", tv |-> StrTv(<<"1", "0">>)],
      [kind |-> "dict", tv |-> StrTv(<<"b", "u", "l", "b">>)],
      [kind |-> "dict", tv |-> StrTv(<<"1", "/", "0">>)],
      [kind |-> "dict", tv |-> NumTv(30)],
      [kind |-> "list", tv |-> NoTv] }

(* -------------------------------- state -------------------------------- *)

VARIABLES
    pc,               \* the blocking call the process is in, "exit" at the end
    now,              \* the clock, in ticks
    interval,         \* args.interval, in ticks
    stop_at,          \* args.stop_at
    test_settings,    \* args.test_settings
    idx,              \* the capability index the device answers with
    path,             \* the resolved endpoint, "" for None
    shutter_speed,    \* the parsed exposure, << >> for None
    successful_shots,
    shot_number,
    rel_i,            \* position of release_shutter in release_payloads
    rel_ctx,          \* caller of release_shutter: startup, take_photo, loop
    exit_code,        \* -1 while running
    summary,          \* the "Completed: s/t" line, << >> while not logged
    shutter,          \* Shutter State: Idle, Pressed, Recovering, Stuck
    maybe_registered, \* a press timed out without an answer and no release
                      \* was accepted nor a recovery sequence exhausted since
    cycle_log,        \* POSTs answered in the current take_photo call
    seq_log,          \* POSTs answered in the current release_shutter call
    last_result,      \* what the last take_photo that returned returned:
                      \* ok, fail, none before the first
    cycle_end,        \* Shutter State when take_photo of the current shot
                      \* returned, none while it has not
    recovered,        \* a release_shutter call completed since the last
                      \* take_photo returned (or since the start)
    loop_start,       \* the time read by the first deadline check of the
                      \* loop (line 332), << >> while none was read
    first_done,       \* the time read by the first post-shot deadline check
                      \* (line 355), << >> while none was read
    interrupted,      \* KeyboardInterrupt was raised
    any_post,         \* a shutter POST has been sent
    cycles            \* history: the calls of take_photo that have returned

\* utils/polling/camera-polling.py, run_monitor
VARIABLES
    mon_pc,           \* "start", the call the monitor is blocked in ("poll",
                      \* "sleep"), "stopped" or "crashed"
    event_number,     \* the script's poll counter
    mon_last,         \* history: the outcome of the last poll that returned
    mon_reported,     \* history: the event names logged for that poll
    mon_delayed,      \* history: time.sleep ran since that poll returned
    mon_warning       \* history: the warning or error logged for that poll

mon_vars ==
    <<mon_pc, event_number, mon_last, mon_reported, mon_delayed, mon_warning>>

\* one call of a function of interval.py on given arguments
VARIABLES
    fn_pc,            \* "idle", "call" or "returned"
    fn_name,          \* the function called
    fn_args,          \* its arguments
    fn_result         \* what it returned

fn_vars == <<fn_pc, fn_name, fn_args, fn_result>>

main_vars ==
    <<pc, now, interval, stop_at, test_settings, idx, path, shutter_speed,
      successful_shots, shot_number, rel_i, rel_ctx,
      exit_code, summary, shutter, maybe_registered, cycle_log, seq_log,
      last_result, cycle_end, recovered, loop_start, first_done,
      interrupted, any_post, cycles>>

vars == <<main_vars, mon_vars, fn_vars>>

State ==
    [pc |-> pc, now |-> now, interval |-> interval, stop_at |-> stop_at,
     test_settings |-> test_settings, idx |-> idx, path |-> path,
     shutter_speed |-> shutter_speed, successful_shots |-> successful_shots,
     shot_number |-> shot_number,
     rel_i |-> rel_i, rel_ctx |-> rel_ctx, exit_code |-> exit_code,
     summary |-> summary, shutter |-> shutter,
     maybe_registered |-> maybe_registered, cycle_log |-> cycle_log,
     seq_log |-> seq_log, last_result |-> last_result, cycle_end |-> cycle_end,
     recovered |-> recovered, loop_start |-> loop_start,
     first_done |-> first_done, interrupted |-> interrupted,
     any_post |-> any_post, cycles |-> cycles]

\* the next state is the record s
Becomes(s) ==
    /\ pc' = s.pc /\ now' = s.now /\ interval' = s.interval
    /\ stop_at' = s.stop_at /\ test_settings' = s.test_settings
    /\ idx' = s.idx /\ path' = s.path /\ shutter_speed' = s.shutter_speed
    /\ successful_shots' = s.successful_shots /\ shot_number' = s.shot_number
    /\ rel_i' = s.rel_i
    /\ rel_ctx' = s.rel_ctx /\ exit_code' = s.exit_code
    /\ summary' = s.summary /\ shutter' = s.shutter
    /\ maybe_registered' = s.maybe_registered /\ cycle_log' = s.cycle_log
    /\ seq_log' = s.seq_log /\ last_result' = s.last_result
    /\ cycle_end' = s.cycle_end /\ recovered' = s.recovered
    /\ loop_start' = s.loop_start /\ first_done' = s.first_done
    /\ interrupted' = s.interrupted /\ any_post' = s.any_post
    /\ cycles' = s.cycles
    /\ UNCHANGED <<mon_vars, fn_vars>>

\* no poll has returned yet
NoPoll == [kind |-> "none", status |-> 0, body |-> << >>]

\* both scripts before their first statement
AtStart ==
    /\ pc = "discover"
    /\ now = 0
    /\ path = ""
    /\ shutter_speed = << >>
    /\ successful_shots = 0
    /\ shot_number = 1
    /\ rel_i = 0
    /\ rel_ctx = "none"
    /\ exit_code = -1
    /\ summary = << >>
    /\ shutter = "Idle"
    /\ maybe_registered = FALSE
    /\ cycle_log = << >>
    /\ seq_log = << >>
    /\ last_result = "none"
    /\ cycle_end = "none"
    /\ recovered = FALSE
    /\ loop_start = << >>
    /\ first_done = << >>
    /\ interrupted = FALSE
    /\ any_post = FALSE
    /\ cycles = 0
    /\ mon_pc = "start"
    /\ event_number = 0
    /\ mon_last = NoPoll
    /\ mon_reported = << >>
    /\ mon_delayed = FALSE
    /\ mon_warning = "none"

\* no function is called on its own
NoCall ==
    /\ fn_pc = "idle"
    /\ fn_name = "none"
    /\ fn_args = << >>
    /\ fn_result = << >>

Init ==
    /\ \E a \in Args : interval = a[1] /\ stop_at = a[2]
    /\ test_settings \in BOOLEAN
    /\ idx \in MainIndexes
    /\ AtStart
    /\ NoCall

(* ------------------------------ the clock ------------------------------ *)

\* the clock after a blocking call of d ticks that began at t
Advance(t, d) == IF t + d > MaxTime THEN MaxTime ELSE t + d

(* ------------------------ device side of a POST ------------------------ *)

\* the device signals that it carried out an action by a status in
\* {200, 201, 202}
Accepted(r) == r \in SuccessCodes

\* a POST that timed out without an answer may have reached the device
MayHaveReached(r, d) == r = NoResponse /\ d = PostTimeout

\* the answers to a POST with the time each takes: a status within the
\* latency bound, a refused connection within it, or no answer at the timeout
PostOutcomes ==
    ((StatusCodes \cup {NoResponse}) \X Latencies) \cup {<<NoResponse, PostTimeout>>}

RaisedOutOfPostOnNoResponse(r) == r = NoResponse

\* lines 66-80: the except clause of post_shutter_action turns every exception
\* of requests.post into the return value None, so no outcome of a POST
\* leaves the function as an exception
RaisedOutOfPost(r) == FALSE

(* -------------------- the program, as steps on a state ----------------- *)

\* lines 367-369: an exception inside the try block ends the script
ScriptFailed(s) == [s EXCEPT !.pc = "exit", !.exit_code = 1]

SummaryFailsOnFailedShots(s) ==
    [s EXCEPT !.summary = <<s.successful_shots, s.shot_number - 1>>,
              !.pc = "exit",
              !.exit_code = IF s.successful_shots < s.shot_number - 1
                            THEN 1 ELSE 0]

\* lines 362-363 and the end of the script
Summary(s) ==
    [s EXCEPT !.summary = <<s.successful_shots, s.shot_number - 1>>,
              !.pc = "exit", !.exit_code = 0]

\* sys.exit(code) inside the try block
SysExit(s, code) == [s EXCEPT !.pc = "exit", !.exit_code = code]

\* release_shutter up to its first POST
StartRelease(s, ctx) ==
    [s EXCEPT !.pc = "release_shutter", !.rel_ctx = ctx, !.rel_i = 1,
              !.seq_log = << >>, !.shutter = "Recovering", !.any_post = TRUE]

PostShotStopsWhenStuck(s) ==
    LET s1 == [s EXCEPT !.shot_number = @ + 1,
                        !.first_done = IF @ = << >> /\ s.stop_at # << >>
                                       THEN <<s.now>> ELSE @]
    IN IF s.shutter = "Stuck" THEN SysExit(s1, 1)
       ELSE IF StopReached(s.stop_at, s.now) THEN Summary(s1)
       ELSE [s1 EXCEPT !.pc = "interval_sleep"]

\* lines 352-360: count the shot, check the deadline, sleep
PostShot(s) ==
    LET s1 == [s EXCEPT !.shot_number = @ + 1,
                        !.first_done = IF @ = << >> /\ s.stop_at # << >>
                                       THEN <<s.now>> ELSE @]
    IN IF StopReached(s.stop_at, s.now) THEN Summary(s1)
       ELSE [s1 EXCEPT !.pc = "interval_sleep"]

CountSuccessAlways(result, n) == n + 1

\* lines 344-346: successful_shots += 1 when take_photo returned True
CountSuccess(result, n) == IF result THEN n + 1 ELSE n

RecoverAfterShotNever(result) == FALSE

RecoverAfterShotOnSuccess(result) == result

\* lines 347-350: release_shutter is called in the else branch
RecoverAfterShot(result) == ~ result

\* lines 344-350: take_photo returned result
AfterPhoto(s, result) ==
    LET s1 == [s EXCEPT !.successful_shots = CountSuccess(result, @),
                        !.cycles = @ + 1,
                        !.last_result = IF result THEN "ok" ELSE "fail",
                        !.cycle_end = s.shutter,
                        !.recovered = FALSE]
    IN IF RecoverAfterShot(result) THEN StartRelease(s1, "loop") ELSE PostShot(s1)

TakePhotoAfterRecoveryFalse(released) == FALSE

\* lines 131-134: what take_photo returns after release_shutter
TakePhotoAfterRecovery(released) == released

\* release_shutter returned ok to its caller
ReleaseDone(s, ok) ==
    LET s1 == [s EXCEPT !.recovered = TRUE]
    IN CASE s.rel_ctx = "startup"    -> [s1 EXCEPT !.pc = "startup_sleep"]
         [] s.rel_ctx = "take_photo" -> AfterPhoto(s1, TakePhotoAfterRecovery(ok))
         [] s.rel_ctx = "loop"       -> PostShot(s1)

\* lines 330-344 and 102-110: the deadline check, then take_photo up to its
\* first POST
LoopTop(s) ==
    LET s1 == [s EXCEPT !.loop_start = IF @ = << >> /\ s.stop_at # << >>
                                       THEN <<s.now>> ELSE @]
    IN IF StopReached(s.stop_at, s.now) THEN Summary(s1)
       ELSE [s1 EXCEPT !.pc = "press1", !.cycle_log = << >>,
                       !.cycle_end = "none", !.any_post = TRUE]

ReleaseLoopNoEarlyExit(i, success) ==
    IF i < Len(release_payloads) THEN "next"
    ELSE IF success THEN "return_true" ELSE "return_false"

\* lines 93-100: the for loop of release_shutter after the answer to payload i
ReleaseLoop(i, success) ==
    IF success THEN "return_true"
    ELSE IF i < Len(release_payloads) THEN "next"
    ELSE "return_false"

NextPayloadStays(i) == i

NextPayloadSkip(i) == IF i + 2 <= Len(release_payloads) THEN i + 2 ELSE i + 1

\* for payload in release_payloads: the position after position i
NextPayload(i) == i + 1

(* ------------------------------- actions ------------------------------- *)

\* discover_ccapi returns or raises; lines 283-305
Discover ==
    /\ pc = "discover"
    /\ \E d \in Latencies, ok \in BOOLEAN :
         LET s1 == [State EXCEPT !.now = Advance(@, d)]
             p == find_shooting_endpoints(idx)
         IN IF ~ ok THEN Becomes(SysExit(s1, 1))
            ELSE IF test_settings
                 THEN Becomes([s1 EXCEPT !.pc = "get_settings"])
            ELSE IF p = "" THEN Becomes(SysExit(s1, 1))
            ELSE Becomes([s1 EXCEPT !.path = p, !.pc = "get_settings"])

\* get_camera_settings returns; lines 288-298 and 309-318
SettingsReturn ==
    /\ pc = "get_settings"
    /\ \E settings \in SettingsResponses,
          d \in Latencies \cup {PostTimeout} :
         /\ d = PostTimeout => settings = NoSettings
         /\ LET s1 == [State EXCEPT !.now = Advance(@, d)]
                speed == parse_shutter_speed(settings)
            IN IF SettingsGetRaises(settings) THEN Becomes(ScriptFailed(s1))
               ELSE IF test_settings
               THEN Becomes(SysExit([s1 EXCEPT !.shutter_speed =
                                        IF settings.kind = "none" THEN @ ELSE speed],
                                    0))
               ELSE IF ~ validate_interval(interval, speed)
                    THEN Becomes(SysExit([s1 EXCEPT !.shutter_speed = speed], 1))
               ELSE Becomes(StartRelease([s1 EXCEPT !.shutter_speed = speed],
                                         "startup"))

\* the answer to the POST of release_payloads[rel_i]; lines 93-100
RecoveryReturn ==
    /\ pc = "release_shutter"
    /\ \E o \in PostOutcomes :
         LET r == o[1]
             d == o[2]
             entry == [step |-> "recover", payload |-> release_payloads[rel_i],
                       ok |-> Accepted(r)]
             step == ReleaseLoop(rel_i, IsSuccess(r))
             s1 == [State EXCEPT
                      !.now = Advance(@, d),
                      !.seq_log = Append(@, entry),
                      !.cycle_log = IF rel_ctx = "take_photo"
                                    THEN Append(@, entry) ELSE @,
                      !.shutter = IF Accepted(r) THEN "Idle"
                                  ELSE IF step = "return_false" THEN "Stuck"
                                  ELSE @,
                      !.maybe_registered =
                          IF Accepted(r) \/ step = "return_false" THEN FALSE ELSE @]
         IN IF RaisedOutOfPost(r) THEN Becomes(ScriptFailed(s1))
            ELSE CASE step = "return_true"  -> Becomes(ReleaseDone(s1, TRUE))
                   [] step = "return_false" -> Becomes(ReleaseDone(s1, FALSE))
                   [] step = "next" -> Becomes([s1 EXCEPT !.rel_i = NextPayload(@)])

\* time.sleep(1) of line 319 returns, the loop is entered
StartupSleepReturn ==
    /\ pc = "startup_sleep"
    /\ Becomes(LoopTop([State EXCEPT !.now = Advance(@, StartupDelay)]))

\* the answer to a press POST; lines 110-118 and 135-137
PressReturn ==
    /\ pc \in {"press1", "press2"}
    /\ \E o \in PostOutcomes :
         LET r == o[1]
             d == o[2]
             af == IF pc = "press1" THEN "false" ELSE "true"
             s1 == [State EXCEPT
                      !.now = Advance(@, d),
                      !.cycle_log =
                          Append(@, [step |-> "press", payload |-> PressPayload(af),
                                     ok |-> Accepted(r)]),
                      !.shutter = IF Accepted(r) THEN "Pressed" ELSE @,
                      !.maybe_registered = @ \/ MayHaveReached(r, d)]
         IN IF RaisedOutOfPost(r) THEN Becomes(ScriptFailed(s1))
            ELSE IF pc = "press1" /\ ~ IsSuccess(r)
            THEN Becomes([s1 EXCEPT !.pc = "press2"])
            ELSE IF IsSuccess(r) THEN Becomes([s1 EXCEPT !.pc = "settle"])
            ELSE Becomes(AfterPhoto(s1, FALSE))

\* time.sleep(0.5) of line 120 returns, the release is sent
SettleReturn ==
    /\ pc = "settle"
    /\ Becomes([State EXCEPT !.now = Advance(@, SettleDelay), !.pc = "release"])

\* the answer to the release POST of take_photo; lines 123-134
ReleaseReturn ==
    /\ pc = "release"
    /\ \E o \in PostOutcomes :
         LET r == o[1]
             d == o[2]
             s1 == [State EXCEPT
                      !.now = Advance(@, d),
                      !.cycle_log =
                          Append(@, [step |-> "release",
                                     payload |-> NominalReleasePayload,
                                     ok |-> Accepted(r)]),
                      !.shutter = IF Accepted(r) THEN "Idle" ELSE @,
                      !.maybe_registered = IF Accepted(r) THEN FALSE ELSE @]
         IN IF RaisedOutOfPost(r) THEN Becomes(ScriptFailed(s1))
            ELSE IF IsSuccess(r) THEN Becomes(AfterPhoto(s1, TRUE))
            ELSE Becomes(StartRelease(s1, "take_photo"))

IntervalWaitRetryNow(interval_ticks, result) ==
    IF result = "fail" THEN 0 ELSE interval_ticks

\* line 360: the time slept after a shot, whatever its result
IntervalWait(interval_ticks, result) == interval_ticks

\* time.sleep(args.interval) of line 360 returns
IntervalSleepReturn ==
    /\ pc = "interval_sleep"
    /\ shot_number <= MaxShots
    /\ Becomes(LoopTop([State EXCEPT
                          !.now = Advance(@, IntervalWait(interval, last_result))]))

\* KeyboardInterrupt inside the try block; lines 365-366
Interrupt ==
    /\ pc # "exit"
    /\ Becomes([State EXCEPT !.pc = "exit", !.exit_code = 0, !.interrupted = TRUE])

Next ==
    \/ Discover
    \/ SettingsReturn
    \/ RecoveryReturn
    \/ StartupSleepReturn
    \/ PressReturn
    \/ SettleReturn
    \/ ReleaseReturn
    \/ IntervalSleepReturn
    \/ Interrupt

Spec == Init /\ [][Next]_vars

\* every call with a timeout returns and every sleep ends: the GET of the
\* settings and the POSTs have timeout=5, time.sleep is finite.  The GET of
\* discover_ccapi has no timeout and the interrupt need not come
TimedCallReturns ==
    \/ SettingsReturn
    \/ RecoveryReturn
    \/ StartupSleepReturn
    \/ PressReturn
    \/ SettleReturn
    \/ ReleaseReturn
    \/ IntervalSleepReturn

\* the command lines of the runs followed to their end: one with no
\* --stop-at, one whose deadline leaves room for two shots
TerminationArgs == { <<30, << >> >>, <<6, <<9>> >> }

FairInit ==
    /\ \E a \in TerminationArgs : interval = a[1] /\ stop_at = a[2]
    /\ test_settings = FALSE
    /\ idx = << <<Endpoint(ManualPath, TRUE)>> >>
    /\ AtStart
    /\ NoCall

FairSpec == FairInit /\ [][Next]_vars /\ WF_vars(TimedCallReturns)

(* ---- the script's start over every small index: lines 270-305 ---- *)

ResolverInit ==
    /\ interval = 20
    /\ stop_at = << >>
    /\ test_settings = FALSE
    /\ idx \in ResolverIndexes
    /\ AtStart
    /\ NoCall

ResolverSpec == ResolverInit /\ [][Discover]_vars

(* ------------------- the functions called on their own ----------------- *)

\* the characters of the shutter-speed texts tried
TvAlphabet == {"0", "1", "2", "/", "x"}

TvTexts == UNION { [1 .. n -> TvAlphabet] : n \in 0 .. MaxChars }

\* the values get_camera_settings may hand to parse_shutter_speed
ParsedSettings ==
    { NoSettings, [kind |-> "list", tv |-> NoTv], [kind |-> "dict", tv |-> NoTv] }
        \cup { [kind |-> "dict", tv |-> StrTv(s)] : s \in TvTexts }
        \cup { [kind |-> "dict", tv |-> NumTv(n)] : n \in 0 .. MaxSeconds }

Exposures ==
    { << >> } \cup { <<n, d>> : n \in 0 .. MaxSeconds, d \in 1 .. MaxSeconds }

FunctionCalls ==
    { [name |-> "validate_interval",
       args |-> [interval |-> i, shutter_speed |-> e]] :
          i \in 1 .. MaxInterval, e \in Exposures }
        \cup { [name |-> "parse_shutter_speed", args |-> [settings |-> s]] :
                  s \in ParsedSettings }
        \cup { [name |-> "parse_stop_time",
                 args |-> [minute_of_day |-> m, now_ticks |-> n]] :
                  m \in 0 .. DayMinutes - 1, n \in 0 .. DayTicks - 1 }

FunctionInit ==
    /\ interval = 20
    /\ stop_at = << >>
    /\ test_settings = FALSE
    /\ idx = << >>
    /\ AtStart
    /\ fn_pc = "call"
    /\ \E c \in FunctionCalls : fn_name = c.name /\ fn_args = c.args
    /\ fn_result = << >>

Returns(result) ==
    /\ fn_pc' = "returned"
    /\ fn_result' = result
    /\ UNCHANGED <<fn_name, fn_args, main_vars, mon_vars>>

CallValidateInterval ==
    /\ fn_pc = "call" /\ fn_name = "validate_interval"
    /\ Returns(validate_interval(fn_args.interval, fn_args.shutter_speed))

\* parse_shutter_speed returns its value or is left by the exception of
\* settings.get
CallParseShutterSpeed ==
    /\ fn_pc = "call" /\ fn_name = "parse_shutter_speed"
    /\ Returns([raised |-> SettingsGetRaises(fn_args.settings),
                seconds |-> IF SettingsGetRaises(fn_args.settings) THEN << >>
                            ELSE parse_shutter_speed(fn_args.settings)])

CallParseStopTime ==
    /\ fn_pc = "call" /\ fn_name = "parse_stop_time"
    /\ Returns(parse_stop_time(fn_args.minute_of_day, fn_args.now_ticks))

FunctionNext ==
    \/ CallValidateInterval
    \/ CallParseShutterSpeed
    \/ CallParseStopTime

FunctionSpec == FunctionInit /\ [][FunctionNext]_vars

(* ------------- the event monitor: camera-polling.py, run_monitor -------- *)

\* the names of the fields a polling answer may report as changed
EventNames == {"tv", "av"}

\* the keys of a JSON object, in the order of the document
KeyLists ==
    { ks \in UNION { [1 .. n -> EventNames] : n \in 0 .. Cardinality(EventNames) } :
        \A i, j \in 1 .. Len(ks) : i # j => ks[i] # ks[j] }

\* the body of an answer: a JSON object, another JSON value (a list of len
\* elements, null), or bytes that are not JSON (the empty body is one)
MappingBody(ks) == [type |-> "mapping", keys |-> ks, len |-> Len(ks)]
ListBody(n) == [type |-> "list", keys |-> << >>, len |-> n]
NullBody == [type |-> "null", keys |-> << >>, len |-> 0]
NotJsonBody == [type |-> "notjson", keys |-> << >>, len |-> 0]

Bodies ==
    { MappingBody(ks) : ks \in KeyLists }
        \cup { ListBody(0), ListBody(1), NullBody, NotJsonBody }

MonStatusCodes == {200, 201, 404, 503}

Response(status, body) == [kind |-> "response", status |-> status, body |-> body]
TimedOut == [kind |-> "timeout", status |-> NoResponse, body |-> NotJsonBody]
ConnectionFailed ==
    [kind |-> "connection_error", status |-> NoResponse, body |-> NotJsonBody]

\* what requests.get of line 65 ends in; the body is not looked at unless the
\* status is 200
PollOutcomes ==
    { Response(200, b) : b \in Bodies }
        \cup { Response(s, NotJsonBody) : s \in MonStatusCodes \ {200} }
        \cup { TimedOut, ConnectionFailed }

\* line 71: if events
EventsTruthy(body) == body.type \notin {"null", "notjson"} /\ body.len > 0

LogEventsFirstOnly(keys, n) ==
    IF keys = << >> THEN << >> ELSE <<[n |-> n, name |-> Head(keys)]>>

\* lines 73-74: one line per key
RECURSIVE LogEvents(_, _)
LogEvents(keys, n) ==
    IF keys = << >> THEN << >>
    ELSE <<[n |-> n, name |-> Head(keys)]>> \o LogEvents(Tail(keys), n)

PollStepNoSleep(o) ==
    CASE o.kind = "timeout" -> "poll"
      [] o.kind = "connection_error" -> "poll"
      [] o.kind = "response" /\ o.status # 200 -> "poll"
      [] o.kind = "response" /\ o.status = 200 ->
             IF o.body.type = "notjson" THEN "crashed"
             ELSE IF ~ EventsTruthy(o.body) THEN "poll"
             ELSE IF o.body.type = "mapping" THEN "poll"
             ELSE "crashed"

\* lines 67-91: how the iteration ends for the outcome o of the poll: the
\* loop goes round ("poll"), sleeps first ("sleep"), or an exception that no
\* except clause of run_monitor names leaves the function ("crashed")
PollStep(o) ==
    CASE o.kind = "timeout" -> "poll"
      [] o.kind = "connection_error" -> "sleep"
      [] o.kind = "response" /\ o.status # 200 -> "poll"
      [] o.kind = "response" /\ o.status = 200 ->
             IF o.body.type = "notjson" THEN "crashed"
             ELSE IF ~ EventsTruthy(o.body) THEN "poll"
             ELSE IF o.body.type = "mapping" THEN "poll"
             ELSE "crashed"

\* the lines logged by line 74 for the outcome o of poll n
Logged(o, n) ==
    IF /\ o.kind = "response" /\ o.status = 200
       /\ EventsTruthy(o.body) /\ o.body.type = "mapping"
    THEN LogEvents(o.body.keys, n)
    ELSE << >>

\* lines 78, 83 and 87: the warning or error logged for the outcome o
Warned(o) ==
    CASE o.kind = "timeout" -> "warning: timeout"
      [] o.kind = "connection_error" -> "error: connection lost"
      [] o.kind = "response" /\ o.status # 200 -> "warning: unexpected response code"
      [] OTHER -> "none"

\* main, lines 108-112: check_camera, then run_monitor up to its first poll
MonitorStart ==
    /\ mon_pc = "start"
    /\ \E available \in BOOLEAN :
         IF available
         THEN mon_pc' = "poll" /\ event_number' = event_number + 1
         ELSE mon_pc' = "unavailable" /\ event_number' = event_number
    /\ UNCHANGED <<mon_last, mon_reported, mon_delayed, mon_warning>>
    /\ UNCHANGED <<main_vars, fn_vars>>

\* requests.get of line 65 ends; lines 67-91 and the next line 64-65
PollReturn ==
    /\ mon_pc = "poll"
    /\ event_number <= MaxPolls
    /\ \E o \in PollOutcomes :
         /\ mon_last' = o
         /\ mon_reported' = Logged(o, event_number)
         /\ mon_delayed' = FALSE
         /\ mon_warning' = Warned(o)
         /\ mon_pc' = PollStep(o)
         /\ event_number' = IF PollStep(o) = "poll" THEN event_number + 1
                            ELSE event_number
    /\ UNCHANGED <<main_vars, fn_vars>>

\* time.sleep(5) of line 90 returns; continue, lines 64-65
MonSleepReturn ==
    /\ mon_pc = "sleep"
    /\ mon_pc' = "poll"
    /\ event_number' = event_number + 1
    /\ mon_delayed' = TRUE
    /\ UNCHANGED <<mon_last, mon_reported, mon_warning, main_vars, fn_vars>>

\* KeyboardInterrupt inside run_monitor; lines 93-94
MonInterrupt ==
    /\ mon_pc \in {"poll", "sleep"}
    /\ mon_pc' = "stopped"
    /\ UNCHANGED <<event_number, mon_last, mon_reported, mon_delayed, mon_warning>>
    /\ UNCHANGED <<main_vars, fn_vars>>

MonitorInit ==
    /\ interval = 20
    /\ stop_at = << >>
    /\ test_settings = FALSE
    /\ idx = << >>
    /\ AtStart
    /\ NoCall

MonitorNext ==
    \/ MonitorStart
    \/ PollReturn
    \/ MonSleepReturn
    \/ MonInterrupt

MonitorSpec == MonitorInit /\ [][MonitorNext]_vars

(* ------------------------- notions of the claims ----------------------- *)

Last(s) == s[Len(s)]

\* a full_press POST is in flight
PressInFlight == pc \in {"press1", "press2"}

\* take_photo of the current shot has returned
CycleOver == cycle_end # "none"

\* the entries of log made by step
Steps(log, step) == {i \in 1 .. Len(log) : log[i].step = step}

\* the payloads of the recovery entries of log, in the order sent
RECURSIVE RecoveryPayloads(_)
RecoveryPayloads(log) ==
    IF log = << >> THEN << >>
    ELSE IF Head(log).step = "recover"
         THEN <<Head(log).payload>> \o RecoveryPayloads(Tail(log))
         ELSE RecoveryPayloads(Tail(log))

\* in the current cycle a press was accepted and the release of take_photo
\* that followed it was not
PressedNotReleased ==
    \E k \in 1 .. Len(cycle_log) - 1 :
        /\ cycle_log[k].step = "press" /\ cycle_log[k].ok
        /\ cycle_log[k + 1].step = "release" /\ ~ cycle_log[k + 1].ok

\* ... and then a recovery payload was accepted
RecoveredCycle ==
    /\ PressedNotReleased
    /\ Last(cycle_log).step = "recover" /\ Last(cycle_log).ok

\* ... and then every recovery payload sent was rejected
StuckCycle ==
    /\ PressedNotReleased
    /\ Steps(cycle_log, "recover") # {}
    /\ \A i \in Steps(cycle_log, "recover") : ~ cycle_log[i].ok

\* the interval validator has to fail: the exposure is known and the interval
\* does not exceed it
IntervalTooShort ==
    /\ shutter_speed # << >>
    /\ interval * shutter_speed[2] <= TicksPerSecond * shutter_speed[1]

\* the deadline is 15 s after the start of the scheduler, the interval 10 s
Deadline15Interval10 ==
    /\ stop_at # << >> /\ loop_start # << >>
    /\ stop_at[1] = loop_start[1] + 15 * TicksPerSecond
    /\ interval = 10 * TicksPerSecond

\* the loop ended at the deadline and logged its summary
Completed == pc = "exit" /\ ~ interrupted /\ summary # << >>

(* -------------------------------- claims ------------------------------- *)

\* C1 as stated: no full_press POST is sent while an earlier press was
\* accepted, or may have been registered by the device, and its cycle has
\* reached neither Idle nor Stuck.
C1_NoPressWhileOutstanding ==
    PressInFlight => shutter \in {"Idle", "Stuck"} /\ ~ maybe_registered

\* C1 amended: no full_press POST is sent while an earlier press was accepted
\* (answered 200, 201 or 202) and its cycle has reached neither Idle nor Stuck;
\* a press that timed out unanswered is followed by the retry press.
C1_NoPressWhileAccepted ==
    PressInFlight => shutter \in {"Idle", "Stuck"}

C1_Witness ==
    /\ pc = "press2" /\ shot_number = 2 /\ last_result = "fail"
    /\ shutter = "Stuck"

\* C2: with a stop deadline, the first press of a shot is never sent at a time
\* at or after the deadline, for the first shot and for every later one.
C2_NoShotAtOrAfterDeadline ==
    (pc = "press1" /\ stop_at # << >>) => now < stop_at[1]

C2_Witness ==
    pc = "press1" /\ stop_at # << >> /\ shot_number = 2 /\ now = stop_at[1] - 1

\* C3: if the exposure is known and the interval does not strictly exceed it,
\* the session has ended without any shutter POST, without entering the loop
\* and without a shot, with exit code 1 (unless it only probed the settings).
C3_InvalidIntervalAborts ==
    IntervalTooShort =>
        /\ pc = "exit" /\ (~ test_settings => exit_code = 1)
        /\ ~ any_post /\ shot_number = 1 /\ cycle_log = << >> /\ seq_log = << >>
        /\ summary = << >> /\ loop_start = << >> /\ shutter = "Idle"

C3_Witness ==
    /\ IntervalTooShort /\ pc = "exit" /\ ~ test_settings /\ ~ interrupted
    /\ shutter_speed = <<10, 1>> /\ interval = 20

\* C4 as stated: whenever the first press of a shot is sent, a recovery
\* sequence was run since the previous shot ended (or since the start).
C4_RecoveryBeforeEveryShot ==
    pc = "press1" => recovered

\* C4 amended: when the first press of a shot is sent, a recovery sequence
\* was run since the previous shot ended exactly when there is no previous
\* shot (session start) or the previous shot was reported failed; after a
\* shot reported successful the next press follows without one.
C4_RecoveryAfterStartOrFailure ==
    pc = "press1" => (recovered <=> last_result # "ok")

C4_Witness ==
    pc = "press1" /\ shot_number = 2 /\ last_result = "fail" /\ recovered

\* C5 as stated: the take_photo call that ends with press accepted, release
\* not accepted, recovery payload accepted is reported failed (not counted in
\* successful_shots) and leaves the state Idle.
C5_RecoveredShotReportedFailed ==
    [][(CycleOver' /\ ~ CycleOver /\ RecoveredCycle') =>
          /\ last_result' = "fail"
          /\ successful_shots' = successful_shots
          /\ cycle_end' = "Idle"]_vars

\* C5 amended: that take_photo call is reported successful (counted in
\* successful_shots) and leaves the state Idle.
C5_RecoveredShotReportedSuccessful ==
    [][(CycleOver' /\ ~ CycleOver /\ RecoveredCycle') =>
          /\ last_result' = "ok"
          /\ successful_shots' = successful_shots + 1
          /\ cycle_end' = "Idle"]_vars

C5_Witness ==
    /\ CycleOver /\ RecoveredCycle
    /\ Cardinality(Steps(cycle_log, "recover")) = 2
    /\ last_result = "ok" /\ successful_shots = 1

\* what every recovery sequence has sent so far: the payloads of the list in
\* list order, each once, and none after one that was accepted
SequenceInOrder ==
    /\ Len(seq_log) <= Len(release_payloads)
    /\ \A i \in 1 .. Len(seq_log) : seq_log[i].payload = release_payloads[i]
    /\ \A i \in 1 .. Len(seq_log) - 1 : ~ seq_log[i].ok

\* C6: a recovery sequence sends the payloads in list order, one at a time,
\* and the answer that accepts payload k ends it: payloads 1..k were sent,
\* each once, no POST of the sequence follows, and the state is Idle.
C6_RecoveryStopsAtFirstAccepted ==
    /\ [] SequenceInOrder
    /\ [][(seq_log' # seq_log /\ seq_log' # << >> /\ Last(seq_log').ok) =>
             /\ shutter' = "Idle"
             /\ pc' # "release_shutter"]_vars

C6_Witness ==
    /\ Len(seq_log) = 2 /\ seq_log[2].ok /\ ~ seq_log[1].ok
    /\ pc = "interval_sleep" /\ shutter = "Idle"

\* C7: a shot with press accepted, release not accepted and every recovery
\* payload rejected ends Stuck and reported failed, and its recovery sequence
\* sent each payload of the list once, in list order.
C7_AllRecoveryRejectedEndsStuck ==
    (CycleOver /\ StuckCycle) =>
        /\ cycle_end = "Stuck"
        /\ last_result = "fail"
        /\ RecoveryPayloads(cycle_log) = release_payloads

C7_Witness ==
    /\ CycleOver /\ StuckCycle /\ cycle_end = "Stuck"
    /\ pc = "release_shutter" /\ rel_ctx = "loop" /\ seq_log = << >>

\* C8 as stated: with the deadline 15 s after the scheduler starts and an
\* interval of 10 s, the loop ends having attempted exactly one shot.
C8_ExactlyOneShot ==
    (Deadline15Interval10 /\ Completed) => summary[2] = 1

\* C8 amended: the loop ends having attempted one or two shots, and one
\* exactly when the first shot (with the recovery that follows a failed shot)
\* was over 5 s or more after the scheduler started; otherwise the second
\* shot starts 10 s later, before the deadline.  There is never a third.
C8_OneOrTwoShots ==
    (Deadline15Interval10 /\ Completed) =>
        /\ summary[2] \in {1, 2}
        /\ summary[2] = 1 <=> first_done[1] - loop_start[1] >= 5 * TicksPerSecond

C8_Witness ==
    Deadline15Interval10 /\ Completed /\ summary[2] = 2

\* C9: cancellation during the scheduler loop ends the program with the
\* summary of successful and total shots reported.
C9_InterruptStillReportsSummary ==
    (pc = "exit" /\ interrupted /\ shot_number >= 2) =>
        summary = <<successful_shots, shot_number - 1>>

\* C10: the process never ends leaving the shutter Pressed by a press of its
\* own that it has not released.
C10_NeverExitsPressed ==
    pc = "exit" => shutter # "Pressed"

(* ------------------------------ the tally ------------------------------ *)

C11_TallyInvariant ==
    /\ 0 <= successful_shots
    /\ successful_shots <= shot_number - 1
    /\ shot_number - 1 <= cycles
    /\ cycles <= shot_number
    /\ cycles = shot_number =>
           /\ last_result = "fail"
           /\ rel_ctx = "loop"
           /\ pc = "release_shutter" \/ interrupted
    /\ summary # << >> => summary = <<successful_shots, cycles>>

C11_TallyStep ==
    /\ shot_number' \in {shot_number, shot_number + 1}
    /\ cycles' \in {cycles, cycles + 1}
    /\ successful_shots' \in {successful_shots, successful_shots + 1}
    /\ successful_shots' = successful_shots + 1 <=>
           (cycles' = cycles + 1 /\ last_result' = "ok")

\* C11: the number of successful shots never exceeds the number of shots
\* counted; neither count ever decreases; the successful count goes up by one
\* exactly in the step in which take_photo returns True; the shot count is
\* the number of take_photo calls that returned, the failed ones included,
\* once the recovery that follows a failed shot is over; and the summary
\* reports the successful count and the number of cycles executed.
C11_ShotsTallied == []C11_TallyInvariant /\ [][C11_TallyStep]_vars

C11_Witness ==
    /\ summary # << >> /\ summary[2] = 2 /\ successful_shots = 1
    /\ last_result = "fail"

(* ----------------------------- the resolver ---------------------------- *)

\* the endpoints of an index in scan order
RECURSIVE ScanOrder(_)
ScanOrder(index) ==
    IF index = << >> THEN << >> ELSE Head(index) \o ScanOrder(Tail(index))

IsShutterPost(e) == e.post /\ Contains(e.path, "shutterbutton")
IsManualPost(e) == IsShutterPost(e) /\ Contains(e.path, "manual")
IsPlainPost(e) == IsShutterPost(e) /\ ~ Contains(e.path, "manual")

Positions(index, Test(_)) ==
    { i \in 1 .. Len(ScanOrder(index)) : Test(ScanOrder(index)[i]) }

FirstPlainPath(index) ==
    LET plain == Positions(index, IsPlainPost)
    IN ScanOrder(index)[CHOOSE i \in plain : \A j \in plain : i <= j].path

\* the index has been resolved and the script goes on with the path
Resolved == ~ test_settings /\ pc = "get_settings"

\* C12: with no POST-capable manual endpoint and several POST-capable plain
\* shutter endpoints in the index, the path chosen is the first of them in
\* scan order.
C12_FirstPlainReturned ==
    (/\ Resolved
     /\ Positions(idx, IsManualPost) = {}
     /\ Cardinality(Positions(idx, IsPlainPost)) >= 2) =>
        path = FirstPlainPath(idx)

\* C13: with at least one POST-capable manual endpoint and at least one
\* POST-capable plain shutter endpoint in the index, in any order and in any
\* versions, the path chosen is a manual endpoint of the index.
C13_ManualPreferred ==
    (/\ Resolved
     /\ Positions(idx, IsManualPost) # {}
     /\ Positions(idx, IsPlainPost) # {}) =>
        \E i \in Positions(idx, IsManualPost) : path = ScanOrder(idx)[i].path

C13_Witness ==
    /\ Resolved
    /\ \E i \in Positions(idx, IsPlainPost), j \in Positions(idx, IsManualPost),
          k \in Positions(idx, IsPlainPost) : i < j /\ j < k
    /\ Contains(path, "manual")

\* C14: when no endpoint of the index both has the shutter marker and
\* supports POST, the script started without --test-settings ends at the
\* resolution with exit code 1 (unless it is interrupted before): it never
\* reads the settings, sends no recovery or press, and counts no shot.
C14_NoEndpointAborts ==
    (/\ ~ test_settings
     /\ Positions(idx, IsShutterPost) = {}
     /\ pc # "discover") =>
        /\ pc = "exit"
        /\ ~ interrupted => exit_code = 1
        /\ path = ""
        /\ shutter_speed = << >>
        /\ ~ any_post
        /\ cycles = 0 /\ shot_number = 1 /\ summary = << >>

C14_Witness ==
    /\ ~ test_settings /\ pc = "exit" /\ exit_code = 1 /\ path = ""
    /\ Positions(idx, IsShutterPost) = {}
    /\ \E i \in 1 .. Len(ScanOrder(idx)) :
          Contains(ScanOrder(idx)[i].path, "shutterbutton")

(* --------------------------- the press retry --------------------------- *)

\* the press POSTs of the current cycle, the one in flight included
PressesSent ==
    Cardinality(Steps(cycle_log, "press")) + (IF PressInFlight THEN 1 ELSE 0)

\* every press answered in the current cycle was answered with a non-success
AllPressesFailed ==
    /\ Steps(cycle_log, "press") # {}
    /\ \A i \in Steps(cycle_log, "press") : ~ cycle_log[i].ok

C15_Retry ==
    /\ PressesSent <= 2
    /\ pc = "press2" =>
           cycle_log = <<[step |-> "press", payload |-> PressPayload("false"),
                          ok |-> FALSE]>>
    /\ \A i \in Steps(cycle_log, "press") :
           /\ i <= 2
           /\ cycle_log[i].payload =
                  [af |-> IF i = 1 THEN "false" ELSE "true",
                   key |-> "action", value |-> "full_press"]
           /\ i = 2 => ~ cycle_log[1].ok
    /\ (CycleOver /\ AllPressesFailed) =>
           /\ Len(cycle_log) = 2
           /\ Steps(cycle_log, "release") = {}
           /\ last_result = "fail"
           /\ cycle_end \in {"Idle", "Stuck"}

C15_FailedRetryStep ==
    (~ CycleOver /\ CycleOver' /\ AllPressesFailed') =>
        /\ pc = "press2"
        /\ cycle_end' = shutter
        /\ shutter = "Idle" => cycle_end' = "Idle"

\* C15: a cycle sends at most two press POSTs; the second is sent only after
\* the first was answered with a non-success, and with the opposite af flag
\* (false, then true); when the second fails too the shot is reported failed,
\* the cycle sends no release, and the shutter state at the end of the cycle
\* is the one the cycle began in: Idle stays Idle (and a shutter left Stuck by
\* the recovery before the cycle is still Stuck).
C15_PressRetriedOnce == []C15_Retry /\ [][C15_FailedRetryStep]_vars

C15_Witness ==
    /\ CycleOver /\ AllPressesFailed /\ cycle_end = "Idle"
    /\ Len(cycle_log) = 2 /\ cycle_log[2].payload.af = "true"

(* --------------------------- the nominal shot -------------------------- *)

\* in the current cycle a press was accepted and the release of take_photo
\* that followed it was accepted
PressedAndReleased ==
    \E k \in 1 .. Len(cycle_log) - 1 :
        /\ cycle_log[k].step = "press" /\ cycle_log[k].ok
        /\ cycle_log[k + 1].step = "release" /\ cycle_log[k + 1].ok

\* C16: a cycle whose press was accepted and whose release was accepted is
\* reported successful and ends Idle, the release is the last POST of the
\* cycle, and no recovery payload is sent in it, by take_photo or by the loop.
C16_NominalShot ==
    PressedAndReleased =>
        /\ CycleOver
        /\ last_result = "ok"
        /\ cycle_end = "Idle"
        /\ Last(cycle_log).step = "release"
        /\ Steps(cycle_log, "recover") = {}
        /\ pc # "release_shutter"

C16_Witness ==
    /\ PressedAndReleased /\ last_result = "ok" /\ Len(cycle_log) = 3
    /\ pc = "interval_sleep"

(* ---------------------- recovery after a failed shot ------------------- *)

C17_FailedShotStep ==
    (~ CycleOver /\ CycleOver' /\ last_result' = "fail") =>
        /\ pc' = "release_shutter" /\ rel_ctx' = "loop" /\ rel_i' = 1
        /\ seq_log' = << >>
        /\ shot_number' = shot_number
        /\ summary' = << >>

C17_NothingBeforeRecovery ==
    (CycleOver /\ last_result = "fail" /\ ~ recovered) =>
        /\ pc = "release_shutter" \/ (pc = "exit" /\ interrupted)
        /\ rel_ctx = "loop"
        /\ shot_number = cycles
        /\ summary = << >>

\* C17: the step in which take_photo returns False enters release_shutter
\* with its first payload; until that recovery has returned the shot is not
\* counted, the deadline is not checked (no summary), the loop does not
\* sleep and no press is sent: the script is in release_shutter, or was
\* interrupted in it.
C17_RecoveryRightAfterFailure ==
    []C17_NothingBeforeRecovery /\ [][C17_FailedShotStep]_vars

C17_Witness ==
    /\ CycleOver /\ last_result = "fail" /\ recovered
    /\ pc = "interval_sleep" /\ Len(seq_log) = 4

(* ------------------------- going on after Stuck ------------------------ *)

C18_AfterStuck ==
    (CycleOver /\ StuckCycle) =>
        /\ last_result = "fail"
        /\ cycle_end = "Stuck"
        /\ pc \in {"release_shutter", "interval_sleep", "exit"}
        /\ pc = "exit" =>
               \/ interrupted
               \/ /\ StopReached(stop_at, now) /\ exit_code = 0
                  /\ summary = <<successful_shots, cycles>>
        /\ pc = "interval_sleep" => shot_number = cycles + 1

C18_NextShotStep ==
    (CycleOver /\ StuckCycle /\ pc = "interval_sleep" /\ pc' # pc) =>
        \/ pc' = "press1" /\ cycles' = cycles
        \/ interrupted'
        \/ StopReached(stop_at, now') /\ summary' = <<successful_shots, cycles>>

\* C18: after a cycle that ended Stuck the script exits only when it is
\* interrupted or when the deadline has passed (then with the summary and
\* exit code 0); otherwise it runs the loop's recovery, counts the failed
\* shot, sleeps the interval and sends the press of the next shot.
C18_StuckDoesNotStop == []C18_AfterStuck /\ [][C18_NextShotStep]_vars

C18_Witness ==
    /\ CycleOver /\ StuckCycle /\ pc = "interval_sleep"
    /\ shutter = "Stuck" /\ shot_number = 2 /\ shot_number <= MaxShots

(* --------------------------- the event monitor ------------------------- *)

\* C19: the loop of the event monitor ends only by the interrupt: whatever
\* the polls end in (a 200 with an empty body, with a body that is not
\* JSON, with a JSON value that is not an object, another status, a
\* timeout, a connection error), run_monitor is not left by an exception.
C19_MonitorEndsOnlyOnCancel == mon_pc # "crashed"

\* the last poll was answered 200 with a JSON object
MappingAnswered ==
    /\ mon_last.kind = "response" /\ mon_last.status = 200
    /\ mon_last.body.type = "mapping"

\* C20: after a poll answered 200 with a JSON object the monitor has logged
\* one event per key of the object, in the object's order and under the
\* number of that poll (none for the empty object, two for two keys), and
\* the next poll is in flight (or the monitor was interrupted) with no sleep
\* in between.
C20_OneEventPerKey ==
    MappingAnswered =>
        /\ Len(mon_reported) = Len(mon_last.body.keys)
        /\ \A i \in 1 .. Len(mon_reported) :
               mon_reported[i].name = mon_last.body.keys[i]
        /\ \A i \in 1 .. Len(mon_reported) :
               mon_reported[i].n = event_number - 1
        /\ mon_pc \in {"poll", "stopped"}
        /\ ~ mon_delayed

C20_Witness ==
    /\ MappingAnswered /\ Len(mon_last.body.keys) = 2
    /\ Len(mon_reported) = 2 /\ mon_reported[1].name # mon_reported[2].name
    /\ mon_pc = "poll" /\ event_number = 3

\* the last poll ended in a connection error
ConnectionLost == mon_last.kind = "connection_error"

\* the last poll was answered with a status other than 200
UnexpectedStatus == mon_last.kind = "response" /\ mon_last.status # 200

\* C21: after a poll that ended in a connection error the monitor sleeps,
\* and the next poll is sent only after that sleep; after a poll answered
\* with a status other than 200 a warning is logged and the next poll is in
\* flight with no sleep in between; neither poll logs an event (the monitor
\* may be interrupted at any of these points).
C21_ConnectionErrorDelayed ==
    /\ ConnectionLost =>
           /\ mon_reported = << >>
           /\ mon_pc \in {"sleep", "poll", "stopped"}
           /\ mon_pc = "poll" => mon_delayed
           /\ mon_warning = "error: connection lost"
    /\ UnexpectedStatus =>
           /\ mon_reported = << >>
           /\ mon_pc \in {"poll", "stopped"}
           /\ ~ mon_delayed
           /\ mon_warning = "warning: unexpected response code"

C21_Witness ==
    /\ ConnectionLost /\ mon_pc = "poll" /\ mon_delayed /\ event_number = 3

\* C22: after a poll that ended in a client-side timeout the next poll is
\* sent only after a sleep.
C22_TimeoutDelayed ==
    (mon_last.kind = "timeout" /\ mon_pc = "poll") => mon_delayed

(* ------------------ network errors and the exit code ------------------- *)

\* the longest a cycle, the loop's recovery included, takes when every POST
\* is answered: eleven POSTs and the settle delay
LongestAnsweredCycle == 11 * MaxLatency + SettleDelay

\* C23: once the first shutter POST has been sent the script never ends with
\* exit code 1, whatever any POST ends in (every POST may end in a refused
\* connection or in a timeout): it ends only by the interrupt or at the
\* deadline with its summary; every cycle, failed ones included, is counted
\* when the sleep before the next shot begins.
C23_NetworkErrorContained ==
    /\ any_post => exit_code \in {-1, 0}
    /\ (any_post /\ pc = "exit") =>
           \/ interrupted
           \/ /\ StopReached(stop_at, now)
              /\ summary = <<successful_shots, cycles>>
    /\ pc = "interval_sleep" => (CycleOver /\ shot_number = cycles + 1)

C23_Witness ==
    /\ pc = "interval_sleep" /\ cycles = 1 /\ shot_number = 2
    /\ last_result = "fail" /\ successful_shots = 0
    /\ first_done # << >>
    /\ first_done[1] - loop_start[1] > LongestAnsweredCycle

C25_SleepBeforePress ==
    (pc' = "press1" /\ cycles > 0) =>
        /\ pc = "interval_sleep"
        /\ now' = Advance(now, interval)

C25_BetweenShots ==
    CycleOver => pc \in {"release_shutter", "interval_sleep", "exit"}

C25_NoCatchUp == []C25_BetweenShots /\ [][C25_SleepBeforePress]_vars

C25_Witness ==
    /\ pc = "press1" /\ cycles = 1 /\ last_result = "fail"
    /\ first_done # << >>
    /\ first_done[1] > loop_start[1]
    /\ now = first_done[1] + interval
    /\ now < MaxTime

(* ----------------------- the functions on their own -------------------- *)

Returned(name) == fn_pc = "returned" /\ fn_name = name

\* C26: validate_interval passes when the exposure is absent, and otherwise
\* passes exactly when the interval is strictly longer than the exposure.
C26_ValidatorStrict ==
    Returned("validate_interval") =>
        LET e == fn_args.shutter_speed
        IN fn_result = (\/ e = << >>
                        \/ e # << >> /\ fn_args.interval * e[2] > TicksPerSecond * e[1])

C26_Witness ==
    /\ Returned("validate_interval")
    /\ fn_args.shutter_speed # << >>
    /\ fn_args.interval * fn_args.shutter_speed[2]
          = TicksPerSecond * fn_args.shutter_speed[1]
    /\ fn_result = FALSE

\* a text of decimal digits
IsDigits(s) == s # << >> /\ \A i \in 1 .. Len(s) : s[i] \in Digits

\* the rational a shutter-speed value stands for: << >> when it stands for
\* none
MeantSeconds(tv) ==
    CASE tv.type = "num" -> <<tv.num, 1>>
      [] tv.type = "str" /\ IsDigits(tv.chars) -> <<DigitsVal(tv.chars), 1>>
      [] tv.type = "str" /\ \E k \in 2 .. Len(tv.chars) - 1 :
             /\ tv.chars[k] = "/"
             /\ IsDigits(SubSeq(tv.chars, 1, k - 1))
             /\ IsDigits(SubSeq(tv.chars, k + 1, Len(tv.chars)))
             /\ DigitsVal(SubSeq(tv.chars, k + 1, Len(tv.chars))) # 0 ->
             LET k == CHOOSE j \in 2 .. Len(tv.chars) - 1 : tv.chars[j] = "/"
             IN <<DigitsVal(SubSeq(tv.chars, 1, k - 1)),
                  DigitsVal(SubSeq(tv.chars, k + 1, Len(tv.chars)))>>
      [] OTHER -> << >>

\* C27: parse_shutter_speed never raises; it returns N/D for the text "N/D",
\* the number for a text of digits, a native number itself, and absent for
\* every other value, for a missing field and for a missing or unusable
\* settings value.
C27_ParsingTotal ==
    Returned("parse_shutter_speed") =>
        /\ ~ fn_result.raised
        /\ fn_result.seconds =
               (IF fn_args.settings.kind = "dict"
                THEN MeantSeconds(fn_args.settings.tv) ELSE << >>)

StartupRecoveryDone ==
    /\ rel_ctx = "startup" /\ recovered
    /\ seq_log # << >>
    /\ Last(seq_log).ok \/ Len(seq_log) = Len(release_payloads)

C29_Startup ==
    /\ any_post =>
           /\ ~ test_settings
           /\ path # "" /\ path = find_shooting_endpoints(idx)
           /\ ~ IntervalTooShort
    /\ (cycles = 0 /\ pc \in {"startup_sleep", "press1", "press2", "settle", "release"}) =>
           StartupRecoveryDone
    /\ (PressInFlight \/ cycles > 0) => (any_post /\ rel_ctx # "none")

C29_StartupStep ==
    /\ pc' # "discover"
    /\ pc' = "get_settings" => pc = "discover"
    /\ (rel_ctx' = "startup" /\ rel_ctx # "startup") =>
           (pc = "get_settings" /\ rel_ctx = "none" /\ pc' = "release_shutter")
    /\ pc' = "startup_sleep" => (pc = "release_shutter" /\ rel_ctx = "startup")
    /\ (pc' = "press1" /\ cycles = 0) => pc = "startup_sleep"
    /\ (any_post' /\ ~ any_post) => pc = "get_settings"

\* C29: discovery, then the resolution, then the settings read and the
\* validation, then the startup recovery, then the first press, each entered
\* once and only from the one before.  No shutter POST is sent unless the
\* endpoint was resolved and the validation passed; the first press is sent
\* only after the startup recovery sequence is complete.
C29_StartupOrder == []C29_Startup /\ [][C29_StartupStep]_vars

C29_Witness ==
    /\ pc = "press1" /\ cycles = 0 /\ shutter_speed # << >>
    /\ StartupRecoveryDone /\ Len(seq_log) = 2

(* ------------------------------ termination ---------------------------- *)

\* the POSTs of the current cycle, the one in flight included, and those of
\* the current recovery sequence
C30_BoundedCalls ==
    /\ PressesSent <= 2
    /\ Cardinality(Steps(cycle_log, "release")) <= 1
    /\ Cardinality(Steps(cycle_log, "recover")) <= Len(release_payloads)
    /\ Len(cycle_log) <= 2 + 1 + Len(release_payloads)
    /\ Len(seq_log) <= Len(release_payloads)
    /\ pc = "release_shutter" => (rel_i = Len(seq_log) + 1 /\ rel_i <= Len(release_payloads))

\* how the script ends once it sends shutter POSTs
C30_Ends ==
    (any_post /\ pc = "exit") =>
        /\ stop_at = << >> => interrupted
        /\ ~ interrupted => (summary = <<successful_shots, cycles>>
                             /\ StopReached(stop_at, now))

\* a cycle under way comes to its end, unless the script is interrupted
C30_CycleTerminates ==
    (any_post /\ pc \in {"press1", "press2", "settle", "release"})
        ~> (CycleOver \/ pc = "exit")

\* with a deadline the script comes to its end
C30_LoopStops == (any_post /\ stop_at # << >>) ~> pc = "exit"

\* C30: a cycle sends at most two presses, one release and four recovery
\* payloads, the recovery of the loop at most four more, and comes to its
\* end; with a deadline the script started on its POSTs always ends, with
\* its summary unless it was interrupted; without a deadline it ends only by
\* the interrupt.
C30_Termination ==
    /\ []C30_BoundedCalls
    /\ []C30_Ends
    /\ C30_CycleTerminates
    /\ C30_LoopStops

C30_Witness ==
    /\ pc = "exit" /\ ~ interrupted /\ stop_at # << >>
    /\ summary # << >> /\ summary[2] = 2 /\ summary[1] = 0
    /\ shutter = "Stuck" /\ Len(seq_log) = Len(release_payloads)

====
